---- MODULE Spec2Model ----
(***************************************************************************)
(* Model of the BooksToScrape scraper: phase1/scraper.py (one book),       *)
(* phase2/scraper_category.py (a whole category) and utils/saver.py (the   *)
(* CSV writers).  The web site, the network and the file system are the    *)
(* environment; each function of the source is an operator and each        *)
(* program step an action.                                                 *)
(***************************************************************************)
EXTENDS Integers, Sequences, FiniteSets, TLC

\* ------------------------------------------------------------------ bounds
\* listing pages the category has (files "1" .. "NumPages")
NumPages == 2
\* item nodes (article.product_pod) a listing page holds at most
MaxItems == 2
\* listing fetches one crawl may make in the model (the code has no such cap)
MaxVisits == 5
\* classes the rating node carries at most
MaxClasses == 3
\* records handed to utils.saver.save_category_to_csv when it is called directly
MaxRecords == 2

\* ------------------------------------------------------------- primitives
Range(s) == {s[i] : i \in 1..Len(s)}

SeqsUpTo(S, n) == UNION {[1..k -> S] : k \in 0..n}

RECURSIVE Flatten(_)
Flatten(ss) == IF ss = <<>> THEN <<>> ELSE Head(ss) \o Flatten(Tail(ss))

RECURSIVE SumLen(_)
SumLen(ss) == IF ss = <<>> THEN 0 ELSE Len(Head(ss)) + SumLen(Tail(ss))

Digits == {"0", "1", "2", "3", "4", "5", "6", "7", "8", "9"}

DigitVal(c) ==
    CASE c = "0" -> 0 [] c = "1" -> 1 [] c = "2" -> 2 [] c = "3" -> 3
      [] c = "4" -> 4 [] c = "5" -> 5 [] c = "6" -> 6 [] c = "7" -> 7
      [] c = "8" -> 8 [] c = "9" -> 9 [] OTHER -> 0

\* int("22"): the decimal value of a sequence of digit characters
RECURSIVE IntOf(_)
IntOf(ds) ==
    IF ds = <<>> THEN 0
    ELSE 10 * IntOf(SubSeq(ds, 1, Len(ds) - 1)) + DigitVal(ds[Len(ds)])

\* str.upper / str.lower on one character of the alphabet the model uses
UpperChar(c) ==
    CASE c = "t" -> "T" [] c = "h" -> "H" [] c = "r" -> "R" [] c = "e" -> "E"
      [] c = "w" -> "W" [] c = "o" -> "O" [] c = "f" -> "F" [] OTHER -> c

LowerChar(c) ==
    CASE c = "T" -> "t" [] c = "H" -> "h" [] c = "R" -> "r" [] c = "E" -> "e"
      [] c = "W" -> "w" [] c = "O" -> "o" [] c = "F" -> "f" [] OTHER -> c

\* str.capitalize(): first character upper-cased, the rest lower-cased
Capitalize(s) ==
    [i \in 1..Len(s) |-> IF i = 1 THEN UpperChar(s[i]) ELSE LowerChar(s[i])]

\* ------------------------------------------------------------------- URLs
\* A URL is the sequence of its path segments after the scheme.
CatalogueRoot == <<"books.toscrape.com", "catalogue">>

\* phase2 URL: .../catalogue/category/books/mystery_3/index.html (file "1")
CategoryDir == CatalogueRoot \o <<"category", "books", "mystery_3">>

FileNames == {ToString(k) : k \in 1..NumPages}

URL == CategoryDir \o <<"1">>

\* phase1 url: .../catalogue/a-light-in-the-attic_1000/index.html
SingleUrl == CatalogueRoot \o <<"a-light-in-the-attic_1000", "index.html">>

\* urljoin(base, ref) for a relative reference: ".." climbs, a name descends,
\* starting from the directory of base
RECURSIVE ApplyRef(_, _)
ApplyRef(dir, ref) ==
    IF ref = <<>> THEN dir
    ELSE IF Head(ref) = ".."
         THEN ApplyRef(IF Len(dir) > 1 THEN SubSeq(dir, 1, Len(dir) - 1) ELSE dir,
                       Tail(ref))
         ELSE ApplyRef(Append(dir, Head(ref)), Tail(ref))

urljoin(base, ref) == ApplyRef(SubSeq(base, 1, Len(base) - 1), ref)

\* href.replace('../', ''): every "../" of the reference is dropped
StripUps(href) == SelectSeq(href, LAMBDA seg : seg # "..")

\* "https://books.toscrape.com/catalogue/" + relative_url
FullUrl(href) == CatalogueRoot \o StripUps(href)

\* the href the item node at position i of a listing page carries
ItemHref(i) == <<"..", "..", "..", ToString(i), "index.html">>

BookUrls == {FullUrl(ItemHref(i)) : i \in 1..MaxItems}

DetailUrls == BookUrls \cup {SingleUrl}

\* ------------------------------------------------------- detail documents
\* What BeautifulSoup holds of a product page: the nodes the extractor asks
\* for.  A cell text is a sequence of characters or tokens.
Labels == {"UPC", "Price (incl. tax)", "Price (excl. tax)", "Availability"}

NA == <<"N/A">>

\* the pound sign that leads a price
Pound == "GBP"

GoodPrice == <<Pound, "5", "1", ".", "7", "7">>

BadPrice == <<Pound, "n", "a">>

UpcText == <<"a897fe39b1053632">>

StockCounted == <<"In stock ", "(", "2", "2", " ", "available", ")">>

StockPlain == <<"In stock">>

ImageSrc == <<"..", "..", "media", "cache", "fe", "72.jpg">>

Row(th, td, text) == [th |-> th, td |-> td, text |-> text]

RowChoices(texts) ==
    {Row(FALSE, FALSE, <<>>), Row(TRUE, FALSE, <<>>)}
        \cup {Row(TRUE, TRUE, t) : t \in texts}

Tables ==
    [UPC : RowChoices({UpcText}),
     PriceIncl : RowChoices({GoodPrice, BadPrice}),
     PriceExcl : RowChoices({GoodPrice, BadPrice}),
     Availability : RowChoices({StockCounted, StockPlain})]

GoodTable ==
    [UPC |-> Row(TRUE, TRUE, UpcText), PriceIncl |-> Row(TRUE, TRUE, GoodPrice),
     PriceExcl |-> Row(TRUE, TRUE, GoodPrice),
     Availability |-> Row(TRUE, TRUE, StockCounted)]

\* the row of the table whose <th> holds the label
RowOf(table, label) ==
    CASE label = "UPC" -> table.UPC
      [] label = "Price (incl. tax)" -> table.PriceIncl
      [] label = "Price (excl. tax)" -> table.PriceExcl
      [] OTHER -> table.Availability

StarRating == <<"s", "t", "a", "r", "-", "r", "a", "t", "i", "n", "g">>

Three == <<"T", "h", "r", "e", "e">>

ClassWords ==
    {StarRating, Three, <<"t", "h", "r", "e", "e">>, <<"T", "w", "o">>,
     <<"h", "o", "t">>}

\* the class lists a node found by find('p', class_='star-rating') can carry
ClassLists == {cl \in SeqsUpTo(ClassWords, MaxClasses) : StarRating \in Range(cl)}

Breadcrumb3 == <<<<"Home">>, <<"Books">>, <<" ", "Poetry", " ">>>>

Breadcrumb2 == <<<<"Home">>, <<"Books">>>>

Doc(has_table, table, h1, descr, rating_node, classes, ul, lis, img) ==
    [has_table |-> has_table, table |-> table, h1 |-> h1, description |-> descr,
     rating_node |-> rating_node, classes |-> classes,
     ul |-> ul, lis |-> lis, image |-> img]

GoodDoc ==
    Doc(TRUE, GoodTable, TRUE, "text", TRUE, <<StarRating, Three>>, TRUE,
        Breadcrumb3, "ok")

\* an error page: none of the product nodes
ErrorDoc == Doc(FALSE, GoodTable, FALSE, "no_anchor", FALSE, <<>>, FALSE, <<>>,
                "no_item_div")

\* product pages varying in everything but the rating
StructureDocs ==
    {Doc(ht, t, h1, d, TRUE, <<StarRating, Three>>, ul, IF ul THEN l ELSE <<>>, img) :
        ht \in {TRUE}, t \in Tables, h1 \in BOOLEAN,
        d \in {"no_anchor", "no_paragraph", "text"},
        ul \in {TRUE}, l \in {Breadcrumb2, Breadcrumb3},
        img \in {"no_item_div", "no_src", "ok"}}
    \cup {Doc(FALSE, GoodTable, TRUE, "text", TRUE, <<StarRating, Three>>, TRUE,
              Breadcrumb3, "ok"),
          Doc(TRUE, GoodTable, TRUE, "text", TRUE, <<StarRating, Three>>, FALSE,
              <<>>, "ok"),
          ErrorDoc}

\* complete product pages varying in the rating node
RatingDocs ==
    {Doc(TRUE, GoodTable, TRUE, "text", TRUE, cl, TRUE, Breadcrumb3, "ok") :
        cl \in ClassLists}
    \cup {Doc(TRUE, GoodTable, TRUE, "text", FALSE, <<>>, TRUE, Breadcrumb3, "ok")}

\* an HTTP exchange for a detail page
Response(net, status, doc) == [net |-> net, status |-> status, doc |-> doc]

TransportError == Response("transport_error", 0, ErrorDoc)

SingleResponses ==
    {Response("ok", st, d) : st \in {200, 404}, d \in StructureDocs}
    \cup {Response("ok", 200, d) : d \in RatingDocs}
    \cup {TransportError}

NoUpcDoc ==
    [GoodDoc EXCEPT !.table = [GoodTable EXCEPT !.UPC = Row(FALSE, FALSE, <<>>)]]

RunResponses ==
    {Response("ok", 200, GoodDoc), Response("ok", 404, GoodDoc),
     Response("ok", 404, ErrorDoc), Response("ok", 200, NoUpcDoc), TransportError}

\* ------------------------------------------------------------ phase1.scraper
\* fetch_page: requests.get + BeautifulSoup(response.text); only a
\* RequestException (a transport error, a timeout) is turned into RuntimeError
fetch_page_checked(resp) ==
    IF resp.net = "transport_error" \/ resp.status >= 400
    THEN [raised |-> TRUE, soup |-> ErrorDoc]
    ELSE [raised |-> FALSE, soup |-> resp.doc]

fetch_page(resp) ==
    IF resp.net = "transport_error"
    THEN [raised |-> TRUE, soup |-> ErrorDoc]
    ELSE [raised |-> FALSE, soup |-> resp.doc]

get_table_value_lenient(soup, label) ==
    IF ~soup.has_table THEN [raised |-> TRUE, text |-> <<>>]
    ELSE LET row == RowOf(soup.table, label)
         IN  [raised |-> FALSE, text |-> IF row.th /\ row.td THEN row.text ELSE NA]

\* get_table_value: table.find('th', string=label), then its <td> sibling
get_table_value(soup, label) ==
    IF ~soup.has_table THEN [raised |-> TRUE, text |-> <<>>]
    ELSE LET row == RowOf(soup.table, label)
         IN  IF ~row.th THEN [raised |-> TRUE, text |-> <<>>]
             ELSE [raised |-> FALSE, text |-> IF row.td THEN row.text ELSE NA]

\* re.search(r'\((\d+)\s+available\)', text): the leftmost "(" followed by
\* digits, whitespace, "available" and ")"
MatchAt(t, i, j) ==
    /\ t[i] = "("
    /\ j > i
    /\ \A k \in (i + 1)..j : t[k] \in Digits
    /\ j + 3 <= Len(t)
    /\ t[j + 1] = " " /\ t[j + 2] = "available" /\ t[j + 3] = ")"

AvailableMatch(t) ==
    LET hits == {p \in (1..Len(t)) \X (1..Len(t)) : MatchAt(t, p[1], p[2])}
    IN  IF hits = {} THEN [found |-> FALSE, n |-> 0]
        ELSE LET p == CHOOSE q \in hits : \A r \in hits : q[1] <= r[1]
             IN  [found |-> TRUE, n |-> IntOf(SubSeq(t, p[1] + 1, p[2]))]

\* float(text.replace(pound, '')): the value in hundredths, or ValueError
ParseFloat(text) ==
    LET s == SelectSeq(text, LAMBDA c : c # Pound)
        dots == {i \in 1..Len(s) : s[i] = "."}
        wellformed == /\ s # <<>>
                      /\ \A i \in 1..Len(s) : s[i] \in Digits \cup {"."}
                      /\ Cardinality(dots) <= 1
                      /\ \E i \in 1..Len(s) : s[i] \in Digits
    IN  IF ~wellformed THEN [raised |-> TRUE, value |-> 0]
        ELSE LET d == IF dots = {} THEN Len(s) + 1 ELSE CHOOSE i \in dots : TRUE
                 frac == SubSeq(s, d + 1, Len(s)) \o <<"0", "0">>
             IN  [raised |-> FALSE,
                  value |-> 100 * IntOf(SubSeq(s, 1, d - 1)) + IntOf(SubSeq(frac, 1, 2))]

\* text.strip() on a tokenised text
RECURSIVE LStrip(_)
LStrip(t) == IF t # <<>> /\ Head(t) = " " THEN LStrip(Tail(t)) ELSE t

RECURSIVE RStrip(_)
RStrip(t) ==
    IF t # <<>> /\ t[Len(t)] = " " THEN RStrip(SubSeq(t, 1, Len(t) - 1)) ELSE t

Strip(t) == RStrip(LStrip(t))

review_rating_map(word) ==
    CASE word = <<"Z", "e", "r", "o">> -> 0 [] word = <<"O", "n", "e">> -> 1
      [] word = <<"T", "w", "o">> -> 2 [] word = Three -> 3
      [] word = <<"F", "o", "u", "r">> -> 4 [] word = <<"F", "i", "v", "e">> -> 5
      [] OTHER -> 0

\* a reading of the rating that looks for a number word anywhere in the list
ReviewRatingAnyWord(soup) ==
    LET classes == IF soup.rating_node THEN soup.classes ELSE <<>>
        words == SelectSeq(classes, LAMBDA c : review_rating_map(Capitalize(c)) > 0)
    IN  IF words = <<>> THEN 0 ELSE review_rating_map(Capitalize(Head(words)))

\* lines 86-90: the first class other than 'star-rating', capitalized, looked
\* up in the map; 'Zero' when there is none
ReviewRating(soup) ==
    LET classes == IF soup.rating_node THEN soup.classes ELSE <<>>
        others == SelectSeq(classes, LAMBDA c : c # StarRating)
        text == IF others = <<>> THEN <<"Z", "e", "r", "o">>
                ELSE Capitalize(Head(others))
    IN  review_rating_map(text)

\* the text of the <h1> of the product pages of the model
TitleText == "A Light in the Attic"

BlankRecord ==
    [product_page_url |-> <<>>, universal_product_code |-> <<>>, title |-> "",
     price_including_tax |-> 0, price_excluding_tax |-> 0,
     number_available |-> [is_int |-> FALSE, n |-> 0], product_description |-> "",
     category |-> <<>>, review_rating |-> 0, image_url |-> <<>>]

\* extract_book_data: any exception inside becomes one RuntimeError naming url
extract_book_data(soup, url) ==
    LET avail == get_table_value(soup, "Availability")
        upc == get_table_value(soup, "UPC")
        incl == get_table_value(soup, "Price (incl. tax)")
        excl == get_table_value(soup, "Price (excl. tax)")
        pincl == ParseFloat(incl.text)
        pexcl == ParseFloat(excl.text)
        match == AvailableMatch(avail.text)
        failed == \/ ~soup.h1
                  \/ avail.raised
                  \/ upc.raised
                  \/ incl.raised \/ pincl.raised
                  \/ excl.raised \/ pexcl.raised
                  \/ ~soup.ul \/ Len(soup.lis) < 3
                  \/ soup.image # "ok"
    IN  IF failed THEN [raised |-> TRUE, url |-> url, record |-> BlankRecord]
        ELSE [raised |-> FALSE, url |-> url,
              record |->
                [product_page_url |-> url,
                 universal_product_code |-> upc.text,
                 title |-> TitleText,
                 price_including_tax |-> pincl.value,
                 price_excluding_tax |-> pexcl.value,
                 number_available |-> [is_int |-> match.found, n |-> match.n],
                 product_description |->
                    IF soup.description = "text" THEN "text" ELSE "N/A",
                 category |-> Strip(soup.lis[3]),
                 review_rating |-> ReviewRating(soup),
                 image_url |-> urljoin(url, ImageSrc)]]

\* --------------------------------------------------------- listing pages
\* What a category listing URL answers: the transport outcome, the HTTP
\* status, the article.product_pod nodes and the li.next node.
Item(i, linked) ==
    [has_link |-> linked, href |-> IF linked THEN ItemHref(i) ELSE <<>>]

ItemLists ==
    {[i \in 1..n |-> Item(i, b[i])] : n \in 0..MaxItems, b \in [1..MaxItems -> BOOLEAN]}

NoNext == [li |-> FALSE, a |-> FALSE, href |-> ""]

NextWithoutAnchor == [li |-> TRUE, a |-> FALSE, href |-> ""]

NextTo(f) == [li |-> TRUE, a |-> TRUE, href |-> f]

NextChoices == {NoNext, NextWithoutAnchor} \cup {NextTo(f) : f \in FileNames}

Listing(net, status, items, next) ==
    [net |-> net, status |-> status, items |-> items, next |-> next]

\* a page nobody has fetched yet: its content is fixed by its first fetch
Unknown == Listing("unknown", 0, <<>>, NoNext)

ListingPages ==
    {Listing("ok", 200, it, nx) : it \in ItemLists, nx \in NextChoices}
    \cup {Listing("ok", 404, <<>>, NoNext), Listing("transport_error", 0, <<>>, NoNext)}

\* ------------------------------------------------- phase2.scraper_category
Msg(tag, url) == [tag |-> tag, url |-> url]

\* the page stops the crawl: session.get raises, raise_for_status raises, or
\* find_all('article', class_='product_pod') is empty
PageFatalStatusOnly(page) == page.net # "ok" \/ page.status >= 400

PageFatal(page) ==
    \/ page.net # "ok"
    \/ page.status >= 400
    \/ page.items = <<>>

\* the for loop over the articles: the full URL of every node whose
\* h3/a/href can be read, in page order; the others are skipped with a warning
RECURSIVE DropSeen(_, _)
DropSeen(links, seen) ==
    IF links = <<>> THEN <<>>
    ELSE IF Head(links) \in seen THEN DropSeen(Tail(links), seen)
         ELSE <<Head(links)>> \o DropSeen(Tail(links), seen \cup {Head(links)})

CollectLinksDeduplicated(urls_so_far, page) ==
    LET linked == SelectSeq(page.items, LAMBDA it : it.has_link)
    IN  urls_so_far \o DropSeen([i \in 1..Len(linked) |-> FullUrl(linked[i].href)],
                                Range(urls_so_far))

CollectLinks(urls_so_far, page) ==
    LET linked == SelectSeq(page.items, LAMBDA it : it.has_link)
    IN  urls_so_far \o [i \in 1..Len(linked) |-> FullUrl(linked[i].href)]

PageWarnings(page, url) ==
    LET unlinked == SelectSeq(page.items, LAMBDA it : ~it.has_link)
    IN  [i \in 1..Len(unlinked) |-> Msg("warning_link", url)]

\* extract_category_name(URL): the segment "mystery_3" of URL gives "Mystery"
CategoryName == "Mystery"

\* date.today(), computed once at import
DATE_TODAY == "today"

FieldNames ==
    <<"product_page_url", "universal_product_code", "title", "price_including_tax",
      "price_excluding_tax", "number_available", "product_description", "category",
      "review_rating", "image_url">>

\* ------------------------------------------------------------ file system
\* open(path, mode='w') either succeeds, fails with PermissionError (the file
\* is held open elsewhere) or fails with another OSError
OpenOutcomes == {"ok", "locked", "io_error"}

File(dir, name, rows) ==
    [dir |-> dir, name |-> name, header |-> FieldNames, rows |-> rows]

\* mode 'w': the file of that name is created or truncated, then written
WriteFile(files, dir, name, rows) ==
    {f \in files : ~(f.dir = dir /\ f.name = name)} \cup {File(dir, name, rows)}

Written(ds, fs, msgs, exc, report) ==
    [dirs |-> ds, files |-> fs, out |-> msgs, raised |-> exc, report |-> report]

\* the writer without its guard on the empty list: data_list[0] fails inside
\* the try, after makedirs and open
save_category_to_csv_unguarded(data_list, oc, ds, fs) ==
    LET dir == "phase2/CSV"
        name == <<"products_category", CategoryName, DATE_TODAY>>
    IN  IF oc = "ok" /\ data_list # <<>>
        THEN Written(ds \cup {dir}, WriteFile(fs, dir, name, data_list),
                     <<Msg("saved", <<>>)>>, FALSE, "saved")
        ELSE Written(ds \cup {dir},
                     IF oc = "ok" THEN WriteFile(fs, dir, name, <<>>) ELSE fs,
                     <<Msg("write_error", <<>>)>>, FALSE, "generic_io")

\* phase2.scraper_category.save_category_to_csv (the one main calls): every
\* exception, PermissionError included, ends in the same printed message
save_category_to_csv(data_list, oc, ds, fs) ==
    LET dir == "phase2/CSV"
        name == <<"products_category", CategoryName, DATE_TODAY>>
    IN  IF data_list = <<>>
        THEN Written(ds, fs, <<Msg("info_empty", <<>>)>>, FALSE, "info_empty")
        ELSE IF oc = "ok"
             THEN Written(ds \cup {dir}, WriteFile(fs, dir, name, data_list),
                          <<Msg("saved", <<>>)>>, FALSE, "saved")
             ELSE Written(ds \cup {dir}, fs, <<Msg("write_error", <<>>)>>, FALSE,
                          "generic_io")

\* utils.saver.save_category_to_csv: PermissionError is raised again with the
\* "file already open elsewhere" message, other exceptions are printed
saver_save_category_to_csv(data_list, oc, ds, fs) ==
    LET dir == "utils/CSV"
        name == <<"products_category", CategoryName, DATE_TODAY>>
    IN  IF data_list = <<>>
        THEN Written(ds, fs, <<Msg("info_empty", <<>>)>>, FALSE, "info_empty")
        ELSE CASE oc = "ok" ->
                    Written(ds \cup {dir}, WriteFile(fs, dir, name, data_list),
                            <<Msg("saved", <<>>)>>, FALSE, "saved")
               [] oc = "locked" ->
                    Written(ds \cup {dir}, fs, <<>>, TRUE, "file_in_use")
               [] OTHER ->
                    Written(ds \cup {dir}, fs, <<Msg("write_error", <<>>)>>, FALSE,
                            "generic_io")

\* utils.cleaner.clean_filename(title): the title made fit for a file name
clean_filename(title) == <<"clean", title>>

\* utils.saver.save_to_csv(book_data, folder)
save_to_csv(book_data, oc, ds, fs) ==
    LET dir == "phase1/CSV"
        name == clean_filename(book_data.title) \o <<DATE_TODAY>>
    IN  CASE oc = "ok" ->
                Written(ds \cup {dir}, WriteFile(fs, dir, name, <<book_data>>),
                        <<Msg("exported", <<>>)>>, FALSE, "saved")
          [] oc = "locked" ->
                Written(ds \cup {dir}, fs, <<>>, TRUE, "file_in_use")
          [] OTHER ->
                Written(ds \cup {dir}, fs, <<Msg("write_error", <<>>)>>, FALSE,
                        "generic_io")

\* ------------------------------------------------------------------ state
VARIABLES
    mode,           \* which program runs: "single", "category", "saver"
    pc,             \* where the program is
    site,           \* listing file name -> what it answers (Unknown until fetched)
    web,            \* detail URL -> the HTTP exchange it gives
    current_url,    \* fetch_category_urls: current_url
    page_number,    \* fetch_category_urls: page_number
    urls,           \* fetch_category_urls: urls
    fetched,        \* the listing URLs fetched so far, in order
    collected,      \* len(urls) at the end of each turn of the crawl loop
    crawl_result,   \* "none", "running", "returned", "raised"
    main_urls,      \* main: urls, once fetch_category_urls has returned
    idx,            \* main: index of the for loop
    soup,           \* the parsed document in hand
    all_products,   \* main: all_products
    book_data,      \* phase1 main: book_data
    data_list,      \* the argument of a direct call of the utils.saver writer
    dirs,           \* directories that exist
    files,          \* files that exist
    out,            \* what has been printed
    events,         \* what has been done, in order
    open_outcome,   \* how open() ended in the writer ("none": not attempted)
    write_report,   \* what the writer reported
    uncaught        \* an exception left the program

vars ==
    <<mode, pc, site, web, current_url, page_number, urls, fetched, collected,
      crawl_result,
      main_urls, idx, soup, all_products, book_data, data_list, dirs, files, out,
      events, open_outcome, write_report, uncaught>>

Ev(name, i) == [ev |-> name, i |-> i]

GoodWeb == [u \in DetailUrls |-> Response("ok", 200, GoodDoc)]

\* a chain of p listing pages of c linked items each
ChainSite(p, c) ==
    [f \in FileNames |->
        LET k == CHOOSE j \in 1..NumPages : ToString(j) = f
        IN  IF k > p THEN Unknown
            ELSE Listing("ok", 200, [i \in 1..c |-> Item(i, TRUE)],
                         IF k < p THEN NextTo(ToString(k + 1)) ELSE NoNext)]

SampleRecords == {extract_book_data(GoodDoc, u).record : u \in BookUrls}

InitCommon ==
    /\ current_url = <<>>
    /\ page_number = 0
    /\ urls = <<>>
    /\ fetched = <<>>
    /\ collected = <<>>
    /\ crawl_result = "none"
    /\ main_urls = <<>>
    /\ idx = 0
    /\ soup = ErrorDoc
    /\ all_products = <<>>
    /\ book_data = BlankRecord
    /\ dirs = {}
    /\ files = {}
    /\ out = <<>>
    /\ events = <<>>
    /\ open_outcome = "none"
    /\ write_report = "none"
    /\ uncaught = FALSE

\* phase1: python scraper.py, whatever the product URL answers
InitSingle ==
    /\ mode = "single"
    /\ pc = "fetch"
    /\ site = [f \in FileNames |-> Unknown]
    /\ \E r \in SingleResponses : web = [GoodWeb EXCEPT ![SingleUrl] = r]
    /\ data_list = <<>>
    /\ InitCommon

\* phase2: python scraper_category.py, whatever the listing pages answer
InitCategoryListings ==
    /\ mode = "category"
    /\ pc = "start"
    /\ site = [f \in FileNames |-> Unknown]
    /\ web = GoodWeb
    /\ data_list = <<>>
    /\ InitCommon

\* phase2: python scraper_category.py, whatever the product pages answer
InitCategoryItems ==
    /\ mode = "category"
    /\ pc = "start"
    /\ \E p \in 1..NumPages, c \in 1..MaxItems : site = ChainSite(p, c)
    /\ \E w \in [BookUrls -> RunResponses] :
          web = [u \in DetailUrls |-> IF u \in BookUrls THEN w[u] ELSE GoodWeb[u]]
    /\ data_list = <<>>
    /\ InitCommon

\* a direct call of utils.saver.save_category_to_csv
InitSaver ==
    /\ mode = "saver"
    /\ pc = "call"
    /\ site = [f \in FileNames |-> Unknown]
    /\ web = GoodWeb
    /\ data_list \in SeqsUpTo(SampleRecords, MaxRecords)
    /\ InitCommon

Init == InitSingle \/ InitCategoryListings \/ InitCategoryItems \/ InitSaver

\* ------------------------------------------------------ phase2: main
\* lines 128-133: the banner, then fetch_category_urls(URL, session) begins
MainStart ==
    /\ mode = "category" /\ pc = "start"
    /\ pc' = "crawl"
    /\ crawl_result' = "running"
    /\ current_url' = URL
    /\ page_number' = 1
    /\ urls' = <<>>
    /\ out' = Append(out, Msg("start", <<>>))
    /\ UNCHANGED <<mode, site, web, fetched, collected, main_urls, idx, soup, all_products,
                   book_data, data_list, dirs, files, events, open_outcome,
                   write_report, uncaught>>

\* the loop with a bound on the number of pages
LoopContinuesBounded(page) == page.next.li /\ page_number < NumPages

\* lines 65-71: the loop goes on exactly when the page has a li.next
LoopContinues(page) == page.next.li

\* one turn of the while loop of fetch_category_urls: fetch, parse, collect,
\* follow the next link or return; an exception ends main in its handler
CrawlStep ==
    /\ mode = "category" /\ pc = "crawl"
    /\ page_number <= MaxVisits
    /\ LET f == current_url[Len(current_url)]
       IN  \E page \in (IF site[f] = Unknown THEN ListingPages ELSE {site[f]}) :
            /\ site' = [site EXCEPT ![f] = page]
            /\ fetched' = Append(fetched, current_url)
            /\ IF PageFatal(page) \/ (LoopContinues(page) /\ ~page.next.a)
               THEN /\ crawl_result' = "raised"
                    /\ pc' = "done"
                    /\ urls' = <<>>
                    /\ out' = out
                              \o (IF PageFatal(page) THEN <<>>
                                  ELSE PageWarnings(page, current_url)
                                       \o <<Msg("page_done", current_url)>>)
                              \o <<Msg("fatal", current_url)>>
                    /\ UNCHANGED <<current_url, page_number, main_urls, idx,
                                   all_products, events>>
               ELSE IF LoopContinues(page)
               THEN /\ urls' = CollectLinks(urls, page)
                    /\ out' = out \o PageWarnings(page, current_url)
                              \o <<Msg("page_done", current_url)>>
                    /\ current_url' = urljoin(current_url, <<page.next.href>>)
                    /\ page_number' = page_number + 1
                    /\ UNCHANGED <<pc, crawl_result, main_urls, idx, all_products,
                                   events>>
               ELSE /\ urls' = CollectLinks(urls, page)
                    /\ crawl_result' = "returned"
                    /\ main_urls' = CollectLinks(urls, page)
                    /\ out' = out \o PageWarnings(page, current_url)
                              \o <<Msg("page_done", current_url), Msg("total", <<>>)>>
                    /\ events' = Append(events, Ev("crawl_return", 0))
                    /\ pc' = "loop"
                    /\ idx' = 1
                    /\ all_products' = <<>>
                    /\ UNCHANGED <<current_url, page_number>>
            /\ collected' = Append(collected, Len(urls'))
    /\ UNCHANGED <<mode, web, soup, book_data, data_list, dirs, files,
                   open_outcome, write_report, uncaught>>

\* lines 137-140: the next URL of the list is announced and fetched
LoopFetch ==
    /\ mode = "category" /\ pc = "loop"
    /\ idx <= Len(main_urls)
    /\ LET url == main_urls[idx]
           r == fetch_page(web[url])
       IN  /\ events' = Append(events, Ev("fetch", idx))
           /\ IF r.raised
              THEN /\ out' = out \o <<Msg("scraping", url), Msg("item_fetch_error", url)>>
                   /\ idx' = idx + 1
                   /\ UNCHANGED <<pc, soup>>
              ELSE /\ out' = Append(out, Msg("scraping", url))
                   /\ soup' = r.soup
                   /\ pc' = "extract"
                   /\ UNCHANGED idx
    /\ UNCHANGED <<mode, site, web, current_url, page_number, urls, fetched, collected,
                   crawl_result, main_urls, all_products, book_data, data_list,
                   dirs, files, open_outcome, write_report, uncaught>>

\* The body of the for loop after the fetch, as a function of the list so far
LoopBodyAppendAlways(products, e) == Append(products, e.record)

\* lines 141-144: append the record, or print the error and go on
LoopBody(products, e) == IF e.raised THEN products ELSE Append(products, e.record)

LoopExtract ==
    /\ mode = "category" /\ pc = "extract"
    /\ \E e \in {extract_book_data(soup, main_urls[idx])} :
           /\ events' = Append(events, Ev("extract", idx))
           /\ all_products' = LoopBody(all_products, e)
           /\ out' = IF e.raised THEN Append(out, Msg("item_extract_error", e.url))
                     ELSE out
    /\ idx' = idx + 1
    /\ pc' = "loop"
    /\ UNCHANGED <<mode, site, web, current_url, page_number, urls, fetched, collected,
                   crawl_result, main_urls, soup, book_data, data_list, dirs,
                   files, open_outcome, write_report, uncaught>>

\* the save call moved into the body of the for loop
CategorySaveInsideLoop ==
    /\ mode = "category" /\ pc = "loop"
    /\ \E oc \in (IF all_products = <<>> THEN {"none"} ELSE OpenOutcomes) :
        LET w == save_category_to_csv(all_products, oc, dirs, files)
        IN  /\ dirs' = w.dirs
            /\ files' = w.files
            /\ out' = out \o w.out
            /\ write_report' = w.report
            /\ open_outcome' = oc
    /\ events' = Append(events, Ev("write", Len(all_products)))
    /\ pc' = IF idx > Len(main_urls) THEN "done" ELSE "extract"
    /\ soup' = IF idx > Len(main_urls) THEN soup ELSE fetch_page(web[main_urls[idx]]).soup
    /\ UNCHANGED <<mode, site, web, current_url, page_number, urls, fetched, collected,
                   crawl_result, main_urls, idx, all_products, book_data,
                   data_list, uncaught>>

\* line 146: save_category_to_csv(all_products, category_name)
CategorySave ==
    /\ mode = "category" /\ pc = "loop"
    /\ idx > Len(main_urls)
    /\ \E oc \in (IF all_products = <<>> THEN {"none"} ELSE OpenOutcomes) :
        LET w == save_category_to_csv(all_products, oc, dirs, files)
        IN  /\ dirs' = w.dirs
            /\ files' = w.files
            /\ out' = out \o w.out
            /\ write_report' = w.report
            /\ open_outcome' = oc
    /\ events' = Append(events, Ev("write", Len(all_products)))
    /\ pc' = "done"
    /\ UNCHANGED <<mode, site, web, current_url, page_number, urls, fetched, collected,
                   crawl_result, main_urls, idx, soup, all_products, book_data,
                   data_list, uncaught>>

\* ------------------------------------------------------ phase1: main
\* line 121: soup = fetch_page(url)
SingleFetch ==
    /\ mode = "single" /\ pc = "fetch"
    /\ LET r == fetch_page(web[SingleUrl])
       IN  /\ events' = Append(events, Ev("fetch", 1))
           /\ IF r.raised
              THEN /\ out' = Append(out, Msg("fetch_error", SingleUrl))
                   /\ pc' = "done"
                   /\ UNCHANGED soup
              ELSE /\ soup' = r.soup
                   /\ pc' = "extract"
                   /\ UNCHANGED out
    /\ UNCHANGED <<mode, site, web, current_url, page_number, urls, fetched, collected,
                   crawl_result, main_urls, idx, all_products, book_data, data_list,
                   dirs, files, open_outcome, write_report, uncaught>>

\* line 122: book_data = extract_book_data(soup, url)
SingleExtract ==
    /\ mode = "single" /\ pc = "extract"
    /\ LET e == extract_book_data(soup, SingleUrl)
       IN  /\ events' = Append(events, Ev("extract", 1))
           /\ IF e.raised
              THEN /\ out' = Append(out, Msg("extract_error", e.url))
                   /\ pc' = "done"
                   /\ UNCHANGED book_data
              ELSE /\ book_data' = e.record
                   /\ pc' = "save"
                   /\ UNCHANGED out
    /\ UNCHANGED <<mode, site, web, current_url, page_number, urls, fetched, collected,
                   crawl_result, main_urls, idx, soup, all_products, data_list,
                   dirs, files, open_outcome, write_report, uncaught>>

\* line 123: save_to_csv(book_data, CSV_FOLDER); a PermissionError it raises
\* is printed by main's handler
SingleSave ==
    /\ mode = "single" /\ pc = "save"
    /\ \E oc \in OpenOutcomes :
        LET w == save_to_csv(book_data, oc, dirs, files)
        IN  /\ dirs' = w.dirs
            /\ files' = w.files
            /\ out' = out \o w.out
                      \o (IF w.raised THEN <<Msg("file_in_use", <<>>)>> ELSE <<>>)
            /\ write_report' = w.report
            /\ open_outcome' = oc
    /\ events' = Append(events, Ev("write", 1))
    /\ pc' = "done"
    /\ UNCHANGED <<mode, site, web, current_url, page_number, urls, fetched, collected,
                   crawl_result, main_urls, idx, soup, all_products, book_data,
                   data_list, uncaught>>

\* ------------------------------------------------------ utils.saver, direct
SaverCall ==
    /\ mode = "saver" /\ pc = "call"
    /\ \E oc \in (IF data_list = <<>> THEN {"none"} ELSE OpenOutcomes) :
        LET w == saver_save_category_to_csv(data_list, oc, dirs, files)
        IN  /\ dirs' = w.dirs
            /\ files' = w.files
            /\ out' = out \o w.out
            /\ write_report' = w.report
            /\ open_outcome' = oc
            /\ uncaught' = w.raised
    /\ events' = Append(events, Ev("write", Len(data_list)))
    /\ pc' = "done"
    /\ UNCHANGED <<mode, site, web, current_url, page_number, urls, fetched, collected,
                   crawl_result, main_urls, idx, soup, all_products, book_data,
                   data_list>>

Next ==
    \/ MainStart
    \/ CrawlStep
    \/ LoopFetch
    \/ LoopExtract
    \/ CategorySave
    \/ SingleFetch
    \/ SingleExtract
    \/ SingleSave
    \/ SaverCall

Spec == Init /\ [][Next]_vars

\* the category run alone, over every site the listing pages can make up;
\* main calls the crawler and the crawler's loop takes its next turn whenever
\* it has one (nothing more is assumed of the steps that follow the crawl)
CategoryNext ==
    \/ MainStart
    \/ CrawlStep
    \/ LoopFetch
    \/ LoopExtract
    \/ CategorySave

CrawlSpec ==
    /\ InitCategoryListings
    /\ [][CategoryNext]_vars
    /\ WF_vars(MainStart)
    /\ WF_vars(CrawlStep)

\* ------------------------------------------------------------ vocabulary
Category == mode = "category"

Single == mode = "single"

FileOf(url) == url[Len(url)]

\* the listing pages the crawl has fetched, in order
FetchedPages == [k \in 1..Len(fetched) |-> site[FileOf(fetched[k])]]

LastPage == FetchedPages[Len(fetched)]

Happened(name) == \E k \in 1..Len(events) : events[k].ev = name

Times(name) == Cardinality({k \in 1..Len(events) : events[k].ev = name})

Printed(tag) == \E k \in 1..Len(out) : out[k].tag = tag

PrintedFor(tag, url) == \E k \in 1..Len(out) : out[k] = Msg(tag, url)

\* the detail URL an item node points to: the catalogue root, then the href
\* without its three leading ".."
TargetOf(item) == CatalogueRoot \o SubSeq(item.href, 4, Len(item.href))

LinkedTargets(page) ==
    LET linked == SelectSeq(page.items, LAMBDA it : it.has_link)
    IN  [i \in 1..Len(linked) |-> TargetOf(linked[i])]

HasDuplicate(s) == \E i, j \in 1..Len(s) : i < j /\ s[i] = s[j]

\* a product page with every node the extractor needs, prices included
WellFormedDoc(d) ==
    /\ d.has_table
    /\ d.table.UPC.th /\ d.table.Availability.th
    /\ d.table.PriceIncl = Row(TRUE, TRUE, GoodPrice)
    /\ d.table.PriceExcl = Row(TRUE, TRUE, GoodPrice)
    /\ d.h1
    /\ d.ul /\ Len(d.lis) >= 3
    /\ d.image = "ok"

\* the table, or the row of one of the four required labels, is missing
MissingRequiredLabel(d) ==
    \/ ~d.has_table
    \/ ~d.table.UPC.th \/ ~d.table.PriceIncl.th
    \/ ~d.table.PriceExcl.th \/ ~d.table.Availability.th

CompleteRecord(r, url) ==
    /\ DOMAIN r = Range(FieldNames)
    /\ r.product_page_url = url
    /\ r.universal_product_code # <<>>
    /\ r.title # ""
    /\ r.product_description # ""
    /\ r.category # <<>>
    /\ r.review_rating \in 0..5
    /\ r.image_url # <<>>

\* the item of the detail URL gives a record: it is fetched and well formed
Succeeds(u) == web[u].net = "ok" /\ WellFormedDoc(web[u].doc)

\* how many URLs of the list the for loop has finished with
Processed == IF pc = "extract" THEN idx - 1 ELSE IF idx = 0 THEN 0 ELSE idx - 1

\* ------------------------------------------------------------------ C1
\* C1 (as amended): when fetch_category_urls returns, its result is the
\* concatenation, page by page in fetch order, of the detail URLs of the item
\* nodes whose link can be read, in page order, duplicates kept; so one URL
\* per item node exactly when every item node carries a link.
C1_LinkedItemsInOrder ==
    (Category /\ crawl_result = "returned") =>
        /\ main_urls = Flatten([k \in 1..Len(fetched) |-> LinkedTargets(FetchedPages[k])])
        /\ ~LastPage.next.li
        /\ (\A k \in 1..Len(fetched) :
                \A i \in 1..Len(FetchedPages[k].items) : FetchedPages[k].items[i].has_link)
              => Len(main_urls) = SumLen([k \in 1..Len(fetched) |-> FetchedPages[k].items])

\* C1 (as stated): the result holds one URL for every item node of the pages
C1_OneUrlPerItemNode ==
    (Category /\ crawl_result = "returned") =>
        Len(main_urls) = SumLen([k \in 1..Len(fetched) |-> FetchedPages[k].items])

\* two pages, four item nodes, one of them without a link, a URL met twice
C1_Witness ==
    /\ Category /\ crawl_result = "returned"
    /\ Len(fetched) = 2
    /\ SumLen([k \in 1..Len(fetched) |-> FetchedPages[k].items]) = 4
    /\ Len(main_urls) = 3
    /\ HasDuplicate(main_urls)

\* ------------------------------------------------------------------ C2
\* C2: a listing page whose fetch fails, whose status is not a success or
\* which holds no item node makes fetch_category_urls raise: main gets no URL
\* list, prints the error and ends, having fetched no detail page and not
\* called the writer.
C2_FatalPageEndsRun ==
    (Category /\ fetched # <<>>
        /\ (LastPage.net # "ok" \/ LastPage.status # 200 \/ Len(LastPage.items) = 0)) =>
        /\ crawl_result = "raised"
        /\ pc = "done"
        /\ main_urls = <<>> /\ ~Happened("crawl_return")
        /\ ~Happened("fetch") /\ ~Happened("extract") /\ ~Happened("write")
        /\ all_products = <<>>
        /\ dirs = {} /\ files = {}
        /\ out[Len(out)] = Msg("fatal", fetched[Len(fetched)])

\* the second page is the fatal one, after a first page that gave links
C2_Witness ==
    /\ Category /\ crawl_result = "raised" /\ pc = "done"
    /\ Len(fetched) = 2
    /\ LinkedTargets(FetchedPages[1]) # <<>>
    /\ FetchedPages[2].net = "ok" /\ FetchedPages[2].status = 200
    /\ FetchedPages[2].items = <<>>

\* ------------------------------------------------------------------ C3
\* C3: in the category run a detail URL whose fetch or extraction fails gives
\* no record and one printed error, and the loop goes on: the records
\* accumulated are those of the processed URLs that succeed, in list order,
\* and the run reaches the writer after the last URL.
C3_ItemFailuresAreLocal ==
    (Category /\ crawl_result = "returned") =>
        LET done == SubSeq(main_urls, 1, Processed)
            good == SelectSeq(done, Succeeds)
            bad == SelectSeq(done, LAMBDA u : ~Succeeds(u))
        IN  /\ Len(all_products) = Len(good)
            /\ \A i \in 1..Len(good) : CompleteRecord(all_products[i], good[i])
            /\ Cardinality({k \in 1..Len(out) :
                    out[k].tag \in {"item_fetch_error", "item_extract_error"}}) = Len(bad)
            /\ ~Printed("fatal")
            /\ pc = "done" => (Processed = Len(main_urls) /\ Times("write") = 1)

\* a failed item is followed by one that succeeds, and the run has ended
C3_Witness ==
    /\ Category /\ pc = "done" /\ crawl_result = "returned"
    /\ Len(main_urls) >= 3
    /\ \E i, j \in 1..Len(main_urls) :
          i < j /\ web[main_urls[i]].net = "transport_error" /\ Succeeds(main_urls[j])
    /\ Len(all_products) >= 1
    /\ Len(all_products) < Len(main_urls)

\* ------------------------------------------------------------------ C4
\* the events of a category run are: the crawler's return, then for each
\* index in turn its fetch and (if fetched) its extraction, then one write
OrderedEvents ==
    /\ events # <<>> => events[1] = Ev("crawl_return", 0)
    /\ \A k \in 2..Len(events) : events[k].ev # "crawl_return"
    /\ \A k \in 1..Len(events) :
          events[k].ev = "extract" =>
              k > 1 /\ events[k - 1] = Ev("fetch", events[k].i)
    /\ \A k, l \in 1..Len(events) :
          (k < l /\ events[k].ev = "fetch" /\ events[l].ev = "fetch") =>
              events[k].i < events[l].i
    /\ \A k \in 1..Len(events) :
          events[k].ev = "write" =>
              /\ k = Len(events)
              /\ \A i \in 1..Len(main_urls) :
                    \E l \in 1..(k - 1) : events[l] = Ev("fetch", i)

\* C4 (as amended): the crawler returns before any detail page is fetched;
\* each URL is fetched, then extracted, before the next one; the writer is
\* called once, after the last URL; a record is serialized at most once, and
\* exactly once when the write succeeds (a failed open leaves no file).
C4_StrictOrder ==
    Category =>
        /\ OrderedEvents
        /\ Times("write") <= 1
        /\ (pc = "done" /\ crawl_result = "returned") => Times("write") = 1
        /\ Cardinality(files) <= 1
        /\ \A f \in files : f.rows = all_products /\ write_report = "saved"
        /\ write_report = "saved" => Cardinality(files) = 1

\* C4 (as stated): once the run is over, the writer has been called once and
\* every accumulated record has been serialized exactly once
C4_EveryRecordSerializedOnce ==
    (Category /\ pc = "done" /\ crawl_result = "returned") =>
        /\ Times("write") = 1
        /\ all_products # <<>> =>
              (Cardinality(files) = 1 /\ \A f \in files : f.rows = all_products)

\* a run over two pages whose records were written after the last URL
C4_Witness ==
    /\ Category /\ pc = "done" /\ crawl_result = "returned"
    /\ Len(fetched) = 2 /\ Len(main_urls) >= 3
    /\ Times("fetch") = Len(main_urls)
    /\ Times("extract") >= 2
    /\ Len(all_products) >= 2
    /\ write_report = "saved"

\* ------------------------------------------------------------------ C5
\* C5: a category writer called with an empty list prints the informational
\* message and returns, leaving directories and files as they were; this
\* holds of the writer main calls and of the one in utils.saver.
C5_EmptyListWritesNothing ==
    [][(~Single /\ Times("write")' = Times("write") + 1
          /\ (IF Category THEN all_products ELSE data_list) = <<>>)
        => (/\ dirs' = dirs
            /\ files' = files
            /\ out' = Append(out, Msg("info_empty", <<>>))
            /\ uncaught' = uncaught
            /\ write_report' = "info_empty")]_vars

\* every detail item of a category run failed, and the writer was called
C5_Witness ==
    /\ Category /\ pc = "done" /\ crawl_result = "returned"
    /\ Len(main_urls) >= 2
    /\ all_products = <<>>
    /\ Happened("write")
    /\ dirs = {} /\ files = {}

\* ------------------------------------------------------------------ C6
\* C6: when open() fails because the file is held open elsewhere, the writer
\* reports the "file in use" condition, not the generic I/O failure, in the
\* single run, in the category run and in utils.saver.
C6_FileInUseIsDistinct ==
    /\ open_outcome = "locked" => write_report = "file_in_use"
    /\ open_outcome = "io_error" => write_report = "generic_io"

\* ------------------------------------------------------------------ C7
\* C7: extract_book_data gives a complete record or raises one error naming
\* the URL; a page without the table or without one of the four required
\* labels raises, and no record of that page reaches the writer, in the
\* single run and in the category run.
C7_CompleteOrError ==
    /\ (Single /\ Happened("extract")) =>
          LET d == web[SingleUrl].doc
          IN  /\ soup = d
              /\ \/ /\ PrintedFor("extract_error", SingleUrl)
                    /\ pc = "done" /\ book_data = BlankRecord
                    /\ ~Happened("write") /\ files = {}
                 \/ /\ ~Printed("extract_error")
                    /\ CompleteRecord(book_data, SingleUrl)
                    /\ ~MissingRequiredLabel(d)
              /\ MissingRequiredLabel(d) => PrintedFor("extract_error", SingleUrl)
              /\ \A f \in files : f.rows = <<book_data>>
    /\ Category =>
          /\ \A i \in 1..Len(all_products) :
                LET r == all_products[i]
                IN  /\ CompleteRecord(r, r.product_page_url)
                    /\ ~MissingRequiredLabel(web[r.product_page_url].doc)
          /\ \A i \in 1..Processed :
                (web[main_urls[i]].net = "ok"
                    /\ MissingRequiredLabel(web[main_urls[i]].doc))
                  => PrintedFor("item_extract_error", main_urls[i])
          /\ \A f \in files : Range(f.rows) \subseteq Range(all_products)

\* the single run on a page that lacks only the UPC row
C7_Witness ==
    /\ Single /\ pc = "done"
    /\ web[SingleUrl].doc = NoUpcDoc
    /\ PrintedFor("extract_error", SingleUrl)
    /\ files = {}

\* ------------------------------------------------------------------ C8
NumberWords ==
    {<<"Z", "e", "r", "o">>, <<"O", "n", "e">>, <<"T", "w", "o">>, Three,
     <<"F", "o", "u", "r">>, <<"F", "i", "v", "e">>}

NumberOf(w) ==
    CASE w = <<"O", "n", "e">> -> 1 [] w = <<"T", "w", "o">> -> 2 [] w = Three -> 3
      [] w = <<"F", "o", "u", "r">> -> 4 [] w = <<"F", "i", "v", "e">> -> 5
      [] OTHER -> 0

Lowered(w) == [i \in 1..Len(w) |-> LowerChar(w[i])]

\* the classes of the rating node of the page of the single run
RatingClasses ==
    IF web[SingleUrl].doc.rating_node THEN web[SingleUrl].doc.classes ELSE <<>>

\* C8 (as amended): review_rating is an integer in 0..5, decided by the first
\* class other than 'star-rating' alone: when that class is a number word up
\* to letter case the rating is its number, whatever classes follow it;
\* otherwise (another first class, no other class, no rating node) it is 0.
C8_FirstOtherClassDecides ==
    (Single /\ pc \in {"save", "done"} /\ ~Printed("extract_error")
        /\ ~Printed("fetch_error")) =>
        LET cl == RatingClasses
            firsts == {i \in 1..Len(cl) :
                          cl[i] # StarRating /\ \A j \in 1..(i - 1) : cl[j] = StarRating}
        IN  /\ book_data.review_rating \in 0..5
            /\ \A i \in firsts :
                  /\ \A w \in NumberWords :
                        Lowered(cl[i]) = Lowered(w) => book_data.review_rating = NumberOf(w)
                  /\ (\A w \in NumberWords : Lowered(cl[i]) # Lowered(w))
                        => book_data.review_rating = 0
            /\ firsts = {} => book_data.review_rating = 0

\* C8 (as stated): a class list with 'star-rating' and a number word gives
\* that word's number whatever the other classes and their order; a class
\* list without a number word gives 0
C8_AnyNumberWordDecides ==
    (Single /\ pc \in {"save", "done"} /\ ~Printed("extract_error")
        /\ ~Printed("fetch_error")) =>
        LET cl == RatingClasses
            words == {w \in NumberWords : \E i \in 1..Len(cl) : Lowered(cl[i]) = Lowered(w)}
        IN  /\ book_data.review_rating \in 0..5
            /\ \A w \in words : words = {w} => book_data.review_rating = NumberOf(w)
            /\ words = {} => book_data.review_rating = 0

\* the number word comes first among the other classes and decides
C8_Witness ==
    /\ Single /\ pc = "done" /\ write_report = "saved"
    /\ RatingClasses = <<StarRating, Three, <<"h", "o", "t">>>>
    /\ book_data.review_rating = 3

\* ------------------------------------------------------------------ C9
\* the page (or one of the pages) fetched after position i, up to position j,
\* holds an item node with a link
LinkBetween(i, j) ==
    \E k \in (i + 1)..j : LinkedTargets(FetchedPages[k]) # <<>>

CrawlEnds ==
    /\ crawl_result = "returned" => (~LastPage.next.li /\ ~HasDuplicate(fetched))
    /\ crawl_result = "raised" =>
          \/ LastPage.net # "ok" \/ LastPage.status # 200 \/ LastPage.items = <<>>
          \/ (LastPage.next.li /\ ~LastPage.next.a)
    /\ HasDuplicate(fetched) => (crawl_result = "running" /\ pc = "crawl")

C10_StatusNotChecked ==
    /\ (Single /\ Happened("fetch")) =>
          LET r == web[SingleUrl]
          IN  /\ Printed("fetch_error") <=> r.net = "transport_error"
              /\ r.net = "transport_error" => (pc = "done" /\ ~Happened("extract"))
              /\ r.net = "ok" =>
                    /\ soup = r.doc
                    /\ pc = "extract" \/ Happened("extract")
                    /\ Happened("extract") =>
                          (PrintedFor("extract_error", SingleUrl) <=> ~WellFormedDoc(r.doc))
    /\ Category =>
          /\ \A k \in 1..Len(out) :
                out[k].tag = "item_fetch_error" => web[out[k].url].net = "transport_error"
          /\ \A i \in 1..Processed :
                web[main_urls[i]].net = "ok" =>
                    \E k \in 1..Len(events) : events[k] = Ev("extract", i)
          /\ (fetched # <<>> /\ LastPage.net = "ok" /\ LastPage.status # 200)
                => crawl_result = "raised"

\* a product page answered with status 404 was extracted and saved
C10_Witness ==
    /\ Single /\ pc = "done"
    /\ web[SingleUrl].status = 404
    /\ WellFormedDoc(web[SingleUrl].doc)
    /\ write_report = "saved"
    /\ \E f \in files : f.rows = <<book_data>>

====
